---- MODULE Spec2Model ----
(***************************************************************************)
(* Loan risk decision engine of enhanced-loan-default-prediction:          *)
(* feature engineering (add_feature_engineering), the serving handlers of  *)
(* enhanced_api.py (load_model, health, model_info_endpoint, predict,      *)
(* batch_predict) and the training-side use of the same feature code.      *)
(*                                                                         *)
(* Number representation.  Python floats are modelled in fixed point:      *)
(*   probabilities       in units of 1/100000   (0.8     -> 80000)         *)
(*   interest_rate, dti  in tenths of a percent (12.5    -> 125)           *)
(*   money amounts       in cents               (555.55  -> 55555)         *)
(*   ratios              in units of 1/10000    (4.5     -> 45000)         *)
(* A float value is a record [k, v]: k = "fin" with the scaled value v,    *)
(* or k = "inf" / k = "nan" (IEEE results of a division by zero).          *)
(***************************************************************************)
EXTENDS Integers, Sequences, FiniteSets, TLC

VARIABLES
    model,        \* enhanced_api.py global `model`: unbound, None or a loaded pipeline
    model_info,   \* enhanced_api.py global `model_info`
    train_df,     \* the data set the exported pipeline was trained on
    request,      \* the request the service handled last
    response,     \* the response it gave
    raw_df,       \* the data frame handed to add_feature_engineering
    df,           \* that data frame after add_feature_engineering
    threads,      \* the predict calls running in the worker threads of the service
    deployment,   \* deploy.py: the position of main and what its steps returned
    tuning        \* advanced_train.py: the locals of the training loop of main

vars == <<model, model_info, train_df, request, response, raw_df, df,
          threads, deployment, tuning>>

\* the programs a specification does not run
NotRun == [pc |-> "not run"]

----------------------------------------------------------------------------
(* Bounds of the model *)

\* longest batch whose content is enumerated element by element
MaxLen == 3
\* most rows of a data frame handed to add_feature_engineering
MaxRows == 2
\* most predict calls running at the same time
MaxCallers == 2

----------------------------------------------------------------------------
(* Floats *)

Fin(n) == [k |-> "fin", v |-> n]
Inf == [k |-> "inf", v |-> 0]
NaN == [k |-> "nan", v |-> 0]

IsFinite(x) == x.k = "fin"

\* a / b for two non-negative numbers, the quotient kept in units of 1/scale
Quot(a, b, scale) ==
    IF b = 0
    THEN (IF a = 0 THEN NaN ELSE Inf)
    ELSE Fin((a * scale) \div b)

\* x / y for a float x >= 0 and a finite float y >= 0, in units of 1/scale
FloatDiv(x, y, scale) ==
    IF x.k = "nan" THEN NaN
    ELSE IF x.k = "inf" THEN Inf
    ELSE Quot(x.v, y.v, scale)

\* Series.astype(int) of a boolean column
AsInt(b) == IF b THEN 1 ELSE 0

\* twice Series.median(): the middle value, or the mean of the two middle
\* values of a column of even length (doubled, to stay in the integers)
Median2(col) ==
    LET s == SortSeq(col, <)
        n == Len(s)
    IN  IF n % 2 = 1
        THEN 2 * s[(n + 1) \div 2]
        ELSE s[n \div 2] + s[(n \div 2) + 1]

Column(frame, name) == [i \in 1..Len(frame) |-> frame[i][name]]

----------------------------------------------------------------------------
(* Feature engineering *)

\* pd.cut called with right=False: left-closed bins [0, 580), [580, 670), ...
credit_score_binned_left_closed(score) ==
    IF score < 0 THEN "nan"
    ELSE IF score < 580 THEN "Poor"
    ELSE IF score < 670 THEN "Fair"
    ELSE IF score < 740 THEN "Good"
    ELSE IF score < 850 THEN "Excellent"
    ELSE "nan"

\* pd.cut(credit_score, bins=[0, 580, 670, 740, 850], include_lowest=True):
\* right-closed bins, the lowest edge included, "nan" outside the bins
credit_score_binned(score) ==
    IF score < 0 THEN "nan"
    ELSE IF score <= 580 THEN "Poor"
    ELSE IF score <= 670 THEN "Fair"
    ELSE IF score <= 740 THEN "Good"
    ELSE IF score <= 850 THEN "Excellent"
    ELSE "nan"

\* a rate flagged when it is at least the median
high_interest_at_least(frame, i) ==
    AsInt(2 * frame[i].interest_rate >= Median2(Column(frame, "interest_rate")))

\* a comparison with the first value of the column instead of its median
high_interest_against_first_row(frame, i) ==
    AsInt(frame[i].interest_rate > frame[1].interest_rate)

\* df['high_interest']: the rate against the median of the frame's own column
high_interest(frame, i) ==
    AsInt(2 * frame[i].interest_rate > Median2(Column(frame, "interest_rate")))

\* a count flagged when it is at least the median
many_open_accounts_at_least(frame, i) ==
    AsInt(2 * frame[i].num_open_acc >= Median2(Column(frame, "num_open_acc")))

\* df['many_open_accounts']: the count against the median of the frame's own column
many_open_accounts(frame, i) ==
    AsInt(2 * frame[i].num_open_acc > Median2(Column(frame, "num_open_acc")))

\* a risk_factors list that also names experienced_worker
risk_score_with_experience(flags) ==
    flags.employment_risk + flags.high_interest + flags.young_borrower
        + flags.experienced_worker
        + flags.multiple_delinquencies + flags.many_open_accounts

\* df[risk_factors].sum(axis=1) for one row, given the flag columns of the row
risk_score(flags) ==
    flags.employment_risk + flags.high_interest + flags.young_borrower
        + flags.multiple_delinquencies + flags.many_open_accounts

\* one row of the frame add_feature_engineering returns
EngineerRow(frame, i) ==
    LET r == frame[i]
        monthly == Quot(r.loan_amount * 100, r.term_months, 1)
        monthly_income == Quot(r.annual_income * 100, 12, 1)
        employment_risk == AsInt(r.employment_length < 2)
        high_int == high_interest(frame, i)
        young_borrower == AsInt(r.age < 30)
        experienced_worker == AsInt(r.employment_length > 10)
        high_credit_score == AsInt(r.credit_score > 750)
        multiple_delinquencies == AsInt(r.delinquency_2yrs > 1)
        many_open == many_open_accounts(frame, i)
    IN  [ age |-> r.age,
          annual_income |-> r.annual_income,
          employment_length |-> r.employment_length,
          home_ownership |-> r.home_ownership,
          purpose |-> r.purpose,
          loan_amount |-> r.loan_amount,
          term_months |-> r.term_months,
          interest_rate |-> r.interest_rate,
          dti |-> r.dti,
          credit_score |-> r.credit_score,
          delinquency_2yrs |-> r.delinquency_2yrs,
          num_open_acc |-> r.num_open_acc,
          income_to_loan_ratio |-> Quot(r.annual_income, r.loan_amount, 10000),
          employment_risk |-> employment_risk,
          credit_score_binned |-> credit_score_binned(r.credit_score),
          monthly_payment |-> monthly,
          payment_to_income_ratio |-> FloatDiv(monthly, monthly_income, 10000),
          high_interest |-> high_int,
          young_borrower |-> young_borrower,
          experienced_worker |-> experienced_worker,
          high_credit_score |-> high_credit_score,
          multiple_delinquencies |-> multiple_delinquencies,
          many_open_accounts |-> many_open,
          risk_score |-> risk_score(
              [ employment_risk |-> employment_risk,
                high_interest |-> high_int,
                young_borrower |-> young_borrower,
                experienced_worker |-> experienced_worker,
                high_credit_score |-> high_credit_score,
                multiple_delinquencies |-> multiple_delinquencies,
                many_open_accounts |-> many_open ]) ]

add_feature_engineering(frame) ==
    [i \in 1..Len(frame) |-> EngineerRow(frame, i)]

----------------------------------------------------------------------------
(* Applications *)

\* final_validation.py scenario "Excellent Borrower"
ExcellentBorrower ==
    [ age |-> 35, annual_income |-> 90000, employment_length |-> 10,
      home_ownership |-> "OWN", purpose |-> "home_improvement",
      loan_amount |-> 20000, term_months |-> 36, interest_rate |-> 75,
      dti |-> 120, credit_score |-> 800, delinquency_2yrs |-> 0,
      num_open_acc |-> 3 ]

\* final_validation.py scenario "High Risk Borrower"
HighRiskBorrower ==
    [ age |-> 23, annual_income |-> 28000, employment_length |-> 1,
      home_ownership |-> "RENT", purpose |-> "debt_consolidation",
      loan_amount |-> 15000, term_months |-> 60, interest_rate |-> 195,
      dti |-> 420, credit_score |-> 570, delinquency_2yrs |-> 4,
      num_open_acc |-> 15 ]

\* final_validation.py scenario "Average Borrower"
AverageBorrower ==
    [ age |-> 32, annual_income |-> 55000, employment_length |-> 5,
      home_ownership |-> "MORTGAGE", purpose |-> "credit_card",
      loan_amount |-> 12000, term_months |-> 36, interest_rate |-> 125,
      dti |-> 250, credit_score |-> 690, delinquency_2yrs |-> 1,
      num_open_acc |-> 7 ]

\* a LoanApplication the request model accepts whose loan_amount is 0
ZeroLoanApplication == [AverageBorrower EXCEPT !.loan_amount = 0]

\* the applications clients send to the service
Applications == {ExcellentBorrower, HighRiskBorrower, ZeroLoanApplication}

\* the rows of the data frames handed to add_feature_engineering directly:
\* the applications above, and the average borrower with one input moved
\* across each threshold of the feature code
FrameRows ==
    Applications
    \cup {AverageBorrower}
    \cup { [AverageBorrower EXCEPT !.age = a] : a \in {29, 30} }
    \cup { [AverageBorrower EXCEPT !.employment_length = e] : e \in {1, 2, 10, 11} }
    \cup { [AverageBorrower EXCEPT !.delinquency_2yrs = d] : d \in {1, 2} }
    \cup { [AverageBorrower EXCEPT !.credit_score = c] :
              c \in {-1, 0, 580, 581, 670, 671, 740, 741, 750, 751, 850, 851} }
    \cup { [AverageBorrower EXCEPT !.loan_amount = l, !.term_months = t,
                                   !.annual_income = y] :
              l \in {0, 12000}, t \in {0, 36}, y \in {0, 55000} }

\* the non-empty data frames of at most MaxRows rows
Frames == UNION { [1..n -> FrameRows] : n \in 1..MaxRows }

\* the data sets the exported pipeline may have been trained on
TrainingSets ==
    { <<ExcellentBorrower, HighRiskBorrower, AverageBorrower>> }

----------------------------------------------------------------------------
(* The trained classifier (mlflow.sklearn.load_model(MODEL_PATH)) *)

\* what one call of the pipeline on one engineered row does: it raises, or
\* gives P(default) (predict_proba) and the binary label (predict)
Raises == [raises |-> TRUE, proba |-> 0, label |-> 0]
Returns(p, l) == [raises |-> FALSE, proba |-> p, label |-> l]

\* probabilities around every threshold of the risk policy
Probabilities ==
    { 0, 5000, 9999, 10000, 15000, 19999, 20000, 29999, 30000, 39999, 40000,
      59999, 60000, 70000, 70001, 79990, 79996, 80000, 100000 }

PipelineOutcomes ==
    {Raises} \cup { Returns(p, l) : p \in Probabilities, l \in {0, 1} }

\* a few outcomes: a failure, a safe approval, a confident rejection
CoarseOutcomes == {Raises, Returns(5000, 0), Returns(80000, 1)}

\* the engineered row predict hands to the pipeline: a one-row frame
ServedRow(application) == add_feature_engineering(<<application>>)[1]

ServedRows == { ServedRow(a) : a \in Applications }

\* the numeric transformer (SimpleImputer, StandardScaler) imputes NaN and
\* rejects infinity with a ValueError
HasInfinity(row) ==
    \/ row.income_to_loan_ratio.k = "inf"
    \/ row.monthly_payment.k = "inf"
    \/ row.payment_to_income_ratio.k = "inf"

\* the fitted pipelines: deterministic maps from the engineered row to an
\* outcome.  One row ranges over every outcome, the others over a few.
Pipelines ==
    LET focus == ServedRow(ExcellentBorrower)
        others == { x \in ServedRows : x # focus /\ ~HasInfinity(x) }
    IN  { [x \in ServedRows |->
              IF HasInfinity(x) THEN Raises
              ELSE IF x = focus THEN o
              ELSE g[x]] :
            o \in PipelineOutcomes, g \in [others -> CoarseOutcomes] }

----------------------------------------------------------------------------
(* The process-wide state of enhanced_api.py *)

Absent == "<absent>"

\* `model` before the startup hook ran, after a failed load, after a load
UnboundModel == [state |-> "unbound", pipeline |-> << >>]
NoneModel == [state |-> "None", pipeline |-> << >>]
LoadedModel(pipeline) == [state |-> "loaded", pipeline |-> pipeline]

\* tuning_results.json as advanced_train.py writes it (best_score in 1/1000)
TuningResults ==
    [best_model |-> "gradient_boost", best_score |-> [k |-> "fin", v |-> 946]]
\* the fallback of load_model when the file cannot be read
FallbackInfo ==
    [best_model |-> "tuned_model", best_score |-> [k |-> "str", v |-> 0]]
\* model_info = {}
EmptyInfo ==
    [best_model |-> Absent, best_score |-> [k |-> "absent", v |-> 0]]
UnboundInfo ==
    [best_model |-> "<unbound>", best_score |-> [k |-> "absent", v |-> 0]]

\* model_info.get(key, default)
Get(info, key, default) ==
    IF key = "best_model"
    THEN (IF info.best_model = Absent THEN default ELSE info.best_model)
    ELSE (IF info.best_score.k = "absent" THEN default ELSE info.best_score)

----------------------------------------------------------------------------
(* Risk policy: lines 156-186 of predict *)

\* tier thresholds compared with > instead of >=
risk_level_exclusive(default_probability) ==
    IF default_probability > 80000 THEN "Very High"
    ELSE IF default_probability > 60000 THEN "High"
    ELSE IF default_probability > 40000 THEN "Medium"
    ELSE IF default_probability > 20000 THEN "Low"
    ELSE "Very Low"

risk_level(default_probability) ==
    IF default_probability >= 80000 THEN "Very High"
    ELSE IF default_probability >= 60000 THEN "High"
    ELSE IF default_probability >= 40000 THEN "Medium"
    ELSE IF default_probability >= 20000 THEN "Low"
    ELSE "Very Low"

risk_color(default_probability) ==
    IF default_probability >= 80000 THEN "red"
    ELSE IF default_probability >= 60000 THEN "orange"
    ELSE IF default_probability >= 40000 THEN "yellow"
    ELSE IF default_probability >= 20000 THEN "lightgreen"
    ELSE "green"

\* approval thresholds compared with <= instead of <
recommendation_inclusive(default_probability, binary_prediction) ==
    IF binary_prediction = 1 THEN "Reject"
    ELSE IF default_probability <= 10000 THEN "Approve"
    ELSE IF default_probability <= 30000 THEN "Approve with monitoring"
    ELSE "Further review required"

\* a monitoring threshold of 0.5 instead of 0.3
recommendation_monitoring_below_half(default_probability, binary_prediction) ==
    IF binary_prediction = 1 THEN "Reject"
    ELSE IF default_probability < 10000 THEN "Approve"
    ELSE IF default_probability < 50000 THEN "Approve with monitoring"
    ELSE "Further review required"

recommendation(default_probability, binary_prediction) ==
    IF binary_prediction = 1 THEN "Reject"
    ELSE IF default_probability < 10000 THEN "Approve"
    ELSE IF default_probability < 30000 THEN "Approve with monitoring"
    ELSE "Further review required"

\* the confidence of a rejection compared with >= 0.7 instead of > 0.7
confidence_at_least(default_probability, binary_prediction) ==
    IF binary_prediction = 1
    THEN (IF default_probability >= 70000 THEN "High" ELSE "Medium")
    ELSE IF default_probability < 10000 THEN "High"
    ELSE IF default_probability < 30000 THEN "Medium"
    ELSE "Low"

confidence(default_probability, binary_prediction) ==
    IF binary_prediction = 1
    THEN (IF default_probability > 70000 THEN "High" ELSE "Medium")
    ELSE IF default_probability < 10000 THEN "High"
    ELSE IF default_probability < 30000 THEN "Medium"
    ELSE "Low"

\* a probability cut after 4 decimals instead of rounded
Round4Truncates(default_probability) == default_probability \div 10

\* round(default_probability, 4) and f"{default_probability*100:.2f}": the
\* probability to the nearest 1/10000
Round4(default_probability) == (default_probability + 5) \div 10

----------------------------------------------------------------------------
(* The handlers of enhanced_api.py *)

\* the batch limit of batch_predict
MaxBatchSize == 100

\* raise HTTPException(status_code, detail) / a returned body (HTTP 200)
HTTPException(status_code, detail) ==
    [status_code |-> status_code, detail |-> detail]
Returned(body) == [status_code |-> 200, body |-> body]

\* an exception raised inside the try block of predict (its kind and the
\* words of str(e)), or none
ValueError(message) == [kind |-> "ValueError", message |-> message]
NoError == [kind |-> "none", message |-> << >>]

\* the exception the try block of predict (lines 141-226) raises for an
\* application: the pipeline rejects the engineered row, or the response
\* cannot be built because best_score is not a number
RaisedInTry(m, info, application) ==
    LET out == m.pipeline[ServedRow(application)]
        best_score == Get(info, "best_score", [k |-> "fin", v |-> 946])
    IN  IF out.raises THEN ValueError(<<"pipeline raised">>)
        \* f"{model_info.get('best_score', 0.946):.3f}" of a str: ValueError
        ELSE IF best_score.k # "fin" THEN ValueError(<<"format code 'f'">>)
        ELSE NoError

\* an except clause that leaves str(e) out of the detail
PredictionErrorWithoutMessage(e) == HTTPException(400, <<"Prediction error">>)

\* except Exception as e: raise HTTPException(400, f"Prediction error: {str(e)}")
PredictionError(e) == HTTPException(400, <<"Prediction error">> \o e.message)

\* the risk policy of predict (lines 156-186) on a probability and a label
classify(default_probability, binary_prediction) ==
    [ risk_level |-> risk_level(default_probability),
      risk_color |-> risk_color(default_probability),
      confidence |-> confidence(default_probability, binary_prediction),
      decision |-> recommendation(default_probability, binary_prediction) ]

\* the dict predict returns (lines 156-226), from the engineered row, the
\* probability and the label the classifier gave, and model_info
Decision(row, default_probability, binary_prediction, info) ==
    LET best_score == Get(info, "best_score", [k |-> "fin", v |-> 946])
    IN
        [ prediction |->
            [ default_probability |-> Round4(default_probability),
              default_probability_percent |-> Round4(default_probability),
              binary_prediction |-> binary_prediction,
              prediction_label |->
                  IF binary_prediction = 1 THEN "Default" ELSE "No Default" ],
          risk_assessment |->
            [ risk_level |-> risk_level(default_probability),
              risk_color |-> risk_color(default_probability),
              confidence |-> confidence(default_probability, binary_prediction) ],
          recommendation |->
            [ decision |-> recommendation(default_probability, binary_prediction),
              reasoning |-> << Round4(default_probability),
                               risk_level(default_probability) >> ],
          feature_analysis |->
            [ income_to_loan_ratio |-> row.income_to_loan_ratio,
              monthly_payment |-> row.monthly_payment,
              payment_to_income_ratio |-> row.payment_to_income_ratio,
              risk_score |-> row.risk_score,
              credit_score_category |-> row.credit_score_binned,
              risk_factors |->
                [ employment_risk |-> row.employment_risk = 1,
                  high_interest |-> row.high_interest = 1,
                  young_borrower |-> row.young_borrower = 1,
                  multiple_delinquencies |-> row.multiple_delinquencies = 1,
                  many_open_accounts |-> row.many_open_accounts = 1 ] ],
          model_info |->
            [ model_type |-> Get(info, "best_model", "gradient_boost"),
              model_performance |-> best_score.v ] ]

\* POST /predict.  Everything after the model check runs inside one try whose
\* handler turns any exception into HTTP 400 "Prediction error: ..."
predict(m, info, application) ==
    IF m.state = "None"
    THEN HTTPException(500, <<"Model not loaded on server">>)
    ELSE
      LET row == ServedRow(application)
          out == m.pipeline[row]
          e == RaisedInTry(m, info, application)
      IN  IF e # NoError
          THEN PredictionError(e)
          ELSE Returned(Decision(row, out.proba, out.label, info))

\* the entry the loop of batch_predict appends for the application at
\* position i (application_id counts from 1)
BatchEntry(i, result) ==
    IF result.status_code = 200
    THEN [application_id |-> i, status |-> "success", result |-> result.body]
    ELSE [application_id |-> i, status |-> "error", error |-> result]

\* a loop whose except branch records the error and leaves the loop
BatchLoopStopsAtFirstError(m, info, applications, lo, hi) ==
    LET failing == { i \in lo..hi :
                       predict(m, info, applications[i]).status_code # 200 }
        last == IF failing = {} THEN hi
                ELSE CHOOSE i \in failing : \A j \in failing : i <= j
    IN  [ k \in 1..(last - lo + 1) |->
            BatchEntry(lo + k - 1, predict(m, info, applications[lo + k - 1])) ]

\* a loop that puts each new entry in front of the earlier ones
BatchLoopNewestFirst(m, info, applications, lo, hi) ==
    [ k \in 1..(hi - lo + 1) |->
        BatchEntry(hi - k + 1, predict(m, info, applications[hi - k + 1])) ]

\* a loop that engineers the features of the whole batch in one data frame
\* and reports, for each element, the flags of its row of that frame
BatchLoopOneFrame(m, info, applications, lo, hi) ==
    LET frame == add_feature_engineering(applications)
    IN  [ k \in 1..(hi - lo + 1) |->
            LET i == lo + k - 1
                r == predict(m, info, applications[i])
            IN  IF r.status_code # 200 THEN BatchEntry(i, r)
                ELSE BatchEntry(i, Returned(
                  [ r.body EXCEPT !.feature_analysis =
                      [ @ EXCEPT !.risk_score = frame[i].risk_score,
                                 !.risk_factors =
                                    [ @ EXCEPT !.high_interest =
                                                  (frame[i].high_interest = 1),
                                               !.many_open_accounts =
                                                  (frame[i].many_open_accounts = 1) ] ] ])) ]

\* for i, app in enumerate(applications): try predict(app), append a success
\* entry / except Exception: append an error entry.  The entries the
\* iterations lo..hi append, in the order they append them (the range is
\* halved to keep the evaluation shallow)
RECURSIVE BatchLoop(_, _, _, _, _)
BatchLoop(m, info, applications, lo, hi) ==
    IF lo > hi THEN << >>
    ELSE IF lo = hi
    THEN << BatchEntry(lo, predict(m, info, applications[lo])) >>
    ELSE LET mid == (lo + hi) \div 2
         IN  BatchLoop(m, info, applications, lo, mid)
                 \o BatchLoop(m, info, applications, mid + 1, hi)

\* r["status"] == "success" / r["status"] == "error"
IsSuccess(r) == r.status = "success"
IsError(r) == r.status = "error"

\* a high-risk test that also counts the Medium tier
IsHighRiskOrMedium(r) ==
    r.status = "success"
    /\ r.result.risk_assessment.risk_level \in {"Medium", "High", "Very High"}

\* r["status"] == "success" and risk_level in ["High", "Very High"]
IsHighRisk(r) ==
    r.status = "success"
    /\ r.result.risk_assessment.risk_level \in {"High", "Very High"}

\* a summary whose total counts the scored applications only
BatchSummaryTotalOfSuccesses(applications, results) ==
    [ total_applications |->
          Cardinality({ j \in DOMAIN results : IsSuccess(results[j]) }),
      successful_predictions |->
          Cardinality({ j \in DOMAIN results : IsSuccess(results[j]) }),
      errors |->
          Cardinality({ j \in DOMAIN results : IsError(results[j]) }),
      high_risk_count |->
          Cardinality({ j \in DOMAIN results : IsHighRisk(results[j]) }) ]

\* the summary dict: counts folded over the results list
BatchSummary(applications, results) ==
    [ total_applications |-> Len(applications),
      successful_predictions |->
          Cardinality({ j \in DOMAIN results : IsSuccess(results[j]) }),
      errors |->
          Cardinality({ j \in DOMAIN results : IsError(results[j]) }),
      high_risk_count |->
          Cardinality({ j \in DOMAIN results : IsHighRisk(results[j]) }) ]

\* a size check that already rejects a batch of exactly the limit
batch_predict_rejects_at_limit(m, info, applications) ==
    IF m.state = "None"
    THEN HTTPException(500, <<"Model not loaded on server">>)
    ELSE IF Len(applications) >= MaxBatchSize
    THEN HTTPException(400, <<"Maximum 100 applications per batch">>)
    ELSE
      LET results == BatchLoop(m, info, applications, 1, Len(applications))
      IN  Returned([ summary |-> BatchSummary(applications, results),
                     results |-> results ])

\* a handler without the model check of its own: the missing model shows
\* only in the predict calls of the loop
batch_predict_without_model_check(m, info, applications) ==
    IF Len(applications) > MaxBatchSize
    THEN HTTPException(400, <<"Maximum 100 applications per batch">>)
    ELSE
      LET results == BatchLoop(m, info, applications, 1, Len(applications))
      IN  Returned([ summary |-> BatchSummary(applications, results),
                     results |-> results ])

\* a handler that checks the size of the batch before the model
batch_predict_size_check_first(m, info, applications) ==
    IF Len(applications) > MaxBatchSize
    THEN HTTPException(400, <<"Maximum 100 applications per batch">>)
    ELSE IF m.state = "None"
    THEN HTTPException(500, <<"Model not loaded on server">>)
    ELSE
      LET results == BatchLoop(m, info, applications, 1, Len(applications))
      IN  Returned([ summary |-> BatchSummary(applications, results),
                     results |-> results ])

\* POST /batch-predict
batch_predict(m, info, applications) ==
    IF m.state = "None"
    THEN HTTPException(500, <<"Model not loaded on server">>)
    ELSE IF Len(applications) > MaxBatchSize
    THEN HTTPException(400, <<"Maximum 100 applications per batch">>)
    ELSE
      LET results == BatchLoop(m, info, applications, 1, Len(applications))
      IN  Returned([ summary |-> BatchSummary(applications, results),
                     results |-> results ])

\* GET /health
health(m, info) ==
    Returned([ status |-> "ok",
               model_loaded |-> m.state # "None",
               model_type |-> Get(info, "best_model", "unknown"),
               roc_auc |-> Get(info, "best_score", [k |-> "str", v |-> 0]) ])

\* GET /model-info
model_info_endpoint(m, info) ==
    IF m.state = "None"
    THEN HTTPException(500, <<"Model not loaded">>)
    ELSE Returned([model_details |-> info])

----------------------------------------------------------------------------
(* Requests *)

RECURSIVE BatchesOfLen(_)
BatchesOfLen(n) ==
    IF n = 0 THEN {<< >>}
    ELSE { Append(b, a) : b \in BatchesOfLen(n - 1), a \in Applications }

\* every batch of at most MaxLen applications
ShortBatches == UNION { BatchesOfLen(n) : n \in 0..MaxLen }

\* batches at the limit and one above it: one application repeated, with an
\* application that cannot be scored in the last position
LongBatches ==
    { [i \in 1..n |-> IF i = n THEN ZeroLoanApplication ELSE ExcellentBorrower] :
        n \in {MaxBatchSize, MaxBatchSize + 1} }

\* batches of four whose third application (position 2 counted from 0) has
\* loan_amount = 0, the other three being scenarios of final_validation.py
IsolationBatches ==
    { <<a, b, ZeroLoanApplication, c>> :
        a \in {ExcellentBorrower, HighRiskBorrower},
        b \in {ExcellentBorrower, HighRiskBorrower},
        c \in {ExcellentBorrower, HighRiskBorrower} }

Batches == ShortBatches \cup LongBatches \cup IsolationBatches

NoRequest == [endpoint |-> "none", body |-> << >>]
NoResponse == [status_code |-> 0]

----------------------------------------------------------------------------
(* The service: startup, then requests handled one after the other *)

Init ==
    /\ model = UnboundModel
    /\ model_info = UnboundInfo
    /\ train_df \in TrainingSets
    /\ request = NoRequest
    /\ response = NoResponse
    /\ raw_df = << >>
    /\ df = << >>
    /\ threads = NotRun
    /\ deployment = NotRun
    /\ tuning = NotRun

\* @app.on_event("startup") load_model
load_model ==
    /\ model.state = "unbound"
    /\ \/ \E pipeline \in Pipelines :
            /\ model' = LoadedModel(pipeline)
            /\ model_info' \in {TuningResults, FallbackInfo}
       \/ /\ model' = NoneModel
          /\ model_info' = EmptyInfo
    /\ UNCHANGED <<train_df, request, response, raw_df, df>>
    /\ UNCHANGED <<threads, deployment, tuning>>

\* the startup hook has run and no request is being handled
Idle == model.state # "unbound" /\ request = NoRequest

\* a health check that tries to load the model again when it is missing
GetHealthReloads ==
    /\ Idle
    /\ request' = [endpoint |-> "/health", body |-> << >>]
    /\ IF model.state = "None"
       THEN /\ \E pipeline \in Pipelines : model' = LoadedModel(pipeline)
            /\ model_info' = TuningResults
       ELSE UNCHANGED <<model, model_info>>
    /\ response' = health(model', model_info')
    /\ UNCHANGED <<train_df, raw_df, df>>
    /\ UNCHANGED <<threads, deployment, tuning>>

GetHealth ==
    /\ Idle
    /\ request' = [endpoint |-> "/health", body |-> << >>]
    /\ response' = health(model, model_info)
    /\ UNCHANGED <<model, model_info, train_df, raw_df, df>>
    /\ UNCHANGED <<threads, deployment, tuning>>

GetModelInfo ==
    /\ Idle
    /\ request' = [endpoint |-> "/model-info", body |-> << >>]
    /\ response' = model_info_endpoint(model, model_info)
    /\ UNCHANGED <<model, model_info, train_df, raw_df, df>>
    /\ UNCHANGED <<threads, deployment, tuning>>

PostPredict ==
    /\ Idle
    /\ \E application \in Applications :
          /\ request' = [endpoint |-> "/predict", body |-> application]
          /\ response' = predict(model, model_info, application)
    /\ UNCHANGED <<model, model_info, train_df, raw_df, df>>
    /\ UNCHANGED <<threads, deployment, tuning>>

PostBatchPredict ==
    /\ Idle
    /\ \E applications \in Batches :
          /\ request' = [endpoint |-> "/batch-predict", body |-> applications]
          /\ response' = batch_predict(model, model_info, applications)
    /\ UNCHANGED <<model, model_info, train_df, raw_df, df>>
    /\ UNCHANGED <<threads, deployment, tuning>>

\* the response goes back to the client and the handler's locals are dropped
SendResponse ==
    /\ request # NoRequest
    /\ request' = NoRequest
    /\ response' = NoResponse
    /\ UNCHANGED <<model, model_info, train_df, raw_df, df>>
    /\ UNCHANGED <<threads, deployment, tuning>>

Next ==
    \/ load_model
    \/ GetHealth
    \/ GetModelInfo
    \/ PostPredict
    \/ PostBatchPredict
    \/ SendResponse

Spec == Init /\ [][Next]_vars

----------------------------------------------------------------------------
(* Feature engineering on a data frame: advanced_train.py main, lines       *)
(* 247-251, and final_validation.py, lines 165-166                          *)

InitFE ==
    /\ model = UnboundModel
    /\ model_info = UnboundInfo
    /\ train_df = << >>
    /\ request = NoRequest
    /\ response = NoResponse
    /\ raw_df \in Frames
    /\ df = << >>
    /\ threads = NotRun
    /\ deployment = NotRun
    /\ tuning = NotRun

\* df = add_feature_engineering(df)
FeatureEngineering ==
    /\ df = << >>
    /\ df' = add_feature_engineering(raw_df)
    /\ UNCHANGED <<model, model_info, train_df, request, response, raw_df>>
    /\ UNCHANGED <<threads, deployment, tuning>>

NextFE == FeatureEngineering

SpecFE == InitFE /\ [][NextFE]_vars

----------------------------------------------------------------------------
(* The risk policy on its own: lines 156-186 of predict applied to a        *)
(* probability and a label                                                  *)

\* the values handed to the policy: the probabilities above, a grid, and
\* values below 0 and above 1
PolicyProbabilities == Probabilities \cup { 2500 * k : k \in -8..48 }

PolicyInput(p, l) ==
    [ endpoint |-> "risk policy",
      body |-> [default_probability |-> p, binary_prediction |-> l] ]

InitPolicy ==
    /\ model = UnboundModel
    /\ model_info = UnboundInfo
    /\ train_df = << >>
    /\ request \in { PolicyInput(p, l) : p \in PolicyProbabilities, l \in {0, 1} }
    /\ response = NoResponse
    /\ raw_df = << >>
    /\ df = << >>
    /\ threads = NotRun
    /\ deployment = NotRun
    /\ tuning = NotRun

\* the if/elif chains run on the probability and the label
Classify ==
    /\ response = NoResponse
    /\ response' = Returned(classify(request.body.default_probability,
                                     request.body.binary_prediction))
    /\ UNCHANGED <<model, model_info, train_df, request, raw_df, df>>
    /\ UNCHANGED <<threads, deployment, tuning>>

NextPolicy == Classify

SpecPolicy == InitPolicy /\ [][NextPolicy]_vars

----------------------------------------------------------------------------
(* predict called by several clients at once: FastAPI runs a `def` handler  *)
(* in a worker thread per request, so the calls interleave between their    *)
(* statements.  threads.call[c] holds the locals of call c, threads.df the  *)
(* data frames, one per namespace.                                          *)

Callers == 1..MaxCallers

\* the services after startup: the load failed, or it gave a pipeline
StartedServices ==
    { <<NoneModel, EmptyInfo>> }
    \cup { <<LoadedModel(pipeline), info>> :
              pipeline \in { q \in Pipelines :
                                q[ServedRow(ExcellentBorrower)] \in CoarseOutcomes },
              info \in {TuningResults, FallbackInfo} }

\* the locals of a call that has not run yet
NewCall(application) ==
    [ pc |-> "start", application |-> application, default_probability |-> 0,
      binary_prediction |-> 0, result |-> NoResponse, overlapped |-> FALSE ]

InitThreads ==
    /\ \E service \in StartedServices :
           model = service[1] /\ model_info = service[2]
    /\ train_df = << >>
    /\ request = NoRequest
    /\ response = NoResponse
    /\ raw_df = << >>
    /\ df = << >>
    /\ threads \in { [ call |-> calls, df |-> [n \in Callers |-> << >>] ] :
                        calls \in [Callers -> { NewCall(a) : a \in Applications }] }
    /\ deployment = NotRun
    /\ tuning = NotRun

\* one name df for the whole module: every call reads and writes the same frame
ModuleNamespace(c) == 1

\* the namespace that holds the local variable df of call c: its own
LocalsOf(c) == c

\* call c moves on with new locals; it overlapped another call if one is
\* between its first and its last statement at that moment
Continue(c, locals, frames) ==
    LET busy == \E d \in Callers \ {c} : threads.call[d].pc \notin {"start", "done"}
    IN  /\ threads' =
              [ call |-> [ threads.call EXCEPT
                             ![c] = [locals EXCEPT !.overlapped = @ \/ busy] ],
                df |-> frames ]
        /\ UNCHANGED <<model, model_info, train_df, request, response, raw_df, df>>
        /\ UNCHANGED <<deployment, tuning>>

\* line 138: if model is None: raise HTTPException(500, ...)
CheckModel(c) ==
    LET locals == threads.call[c]
    IN  /\ locals.pc = "start"
        /\ IF model.state = "None"
           THEN Continue(c, [locals EXCEPT
                    !.pc = "done",
                    !.result = HTTPException(500, <<"Model not loaded on server">>)],
                    threads.df)
           ELSE Continue(c, [locals EXCEPT !.pc = "engineer"], threads.df)

\* lines 143-147: df = add_feature_engineering(pd.DataFrame([app_data]))
Engineer(c) ==
    LET locals == threads.call[c]
    IN  /\ locals.pc = "engineer"
        /\ Continue(c, [locals EXCEPT !.pc = "predict_proba"],
                     [threads.df EXCEPT ![LocalsOf(c)] =
                         add_feature_engineering(<<locals.application>>)])

\* lines 150-151: default_probability = float(model.predict_proba(df)[0][1]);
\* an exception goes to the except clause of line 228
PredictProba(c) ==
    LET locals == threads.call[c]
        out == model.pipeline[threads.df[LocalsOf(c)][1]]
    IN  /\ locals.pc = "predict_proba"
        /\ IF out.raises
           THEN Continue(c, [locals EXCEPT
                    !.pc = "done",
                    !.result = PredictionError(ValueError(<<"pipeline raised">>))],
                    threads.df)
           ELSE Continue(c, [locals EXCEPT !.pc = "predict",
                                           !.default_probability = out.proba],
                         threads.df)

\* line 154: binary_prediction = int(model.predict(df)[0])
PredictLabel(c) ==
    LET locals == threads.call[c]
        out == model.pipeline[threads.df[LocalsOf(c)][1]]
    IN  /\ locals.pc = "predict"
        /\ IF out.raises
           THEN Continue(c, [locals EXCEPT
                    !.pc = "done",
                    !.result = PredictionError(ValueError(<<"pipeline raised">>))],
                    threads.df)
           ELSE Continue(c, [locals EXCEPT !.pc = "respond",
                                           !.binary_prediction = out.label],
                         threads.df)

\* lines 156-229: the policy, the feature insights and the returned dict,
\* which reads model_info; the format of best_score may raise
Respond(c) ==
    LET locals == threads.call[c]
        best_score == Get(model_info, "best_score", [k |-> "fin", v |-> 946])
    IN  /\ locals.pc = "respond"
        /\ IF best_score.k # "fin"
           THEN Continue(c, [locals EXCEPT
                    !.pc = "done",
                    !.result = PredictionError(ValueError(<<"format code 'f'">>))],
                    threads.df)
           ELSE Continue(c, [locals EXCEPT
                    !.pc = "done",
                    !.result = Returned(Decision(threads.df[LocalsOf(c)][1],
                                                 locals.default_probability,
                                                 locals.binary_prediction,
                                                 model_info))],
                    threads.df)

NextThreads ==
    \E c \in Callers :
        \/ CheckModel(c)
        \/ Engineer(c)
        \/ PredictProba(c)
        \/ PredictLabel(c)
        \/ Respond(c)

SpecThreads == InitThreads /\ [][NextThreads]_vars

----------------------------------------------------------------------------
(* deploy.py: main runs check_requirements, train_model, start_api_server   *)
(* and test_api.  deployment.pc is the position of main; the packages that  *)
(* are installed, the training run, the exported_model directory and the    *)
(* answers of the server are the environment.                               *)

RequiredPackages == {"mlflow", "sklearn", "pandas", "fastapi", "uvicorn"}

\* check_requirements: every import succeeds
check_requirements(installed) == RequiredPackages \subseteq installed

\* what the training command can do: exit 0 after exporting the model
\* (train.py lines 184-189), exit non-zero before touching the directory,
\* or exit non-zero between its rmtree and its save_model
TrainingRuns == {"exported", "failed", "failed after rmtree"}

\* run_command in the foreground: the CompletedProcess, or None on a
\* CalledProcessError
run_command(run) == IF run = "exported" THEN "CompletedProcess" ELSE "None"

\* the exported_model directory after the training command
DirectoryAfter(run, exists) ==
    CASE run = "exported" -> TRUE
      [] run = "failed" -> exists
      [] run = "failed after rmtree" -> FALSE

\* a directory left by an earlier run is enough
train_model_trusts_directory(result, exists) == exists

\* train_model: False when run_command returned None, else whether the
\* exported_model directory exists
train_model(result, exists) ==
    IF result = "None" THEN FALSE ELSE exists

\* the answers of GET /health and POST /predict as test_api sees them
HealthAnswers == {"200", "503", "exception"}

ResultKeys == {"default_probability", "risk_level", "recommendation"}

PredictAnswers ==
    { [status |-> "exception", keys |-> {}], [status |-> "500", keys |-> {}] }
    \cup { [status |-> "200", keys |-> k] : k \in SUBSET ResultKeys }

\* test_api: "True", "False", or "None" when the function falls off its end
\* because the 200 answer has no default_probability
test_api(health_status, answer) ==
    IF health_status # "200"
    THEN "False"
    ELSE IF answer.status # "200"
    THEN "False"
    ELSE IF "default_probability" \notin answer.keys
    THEN "None"
    ELSE IF ResultKeys \subseteq answer.keys
    THEN "True"
    ELSE "False"

InitDeploy ==
    /\ model = Absent
    /\ model_info = Absent
    /\ train_df = << >>
    /\ request = NoRequest
    /\ response = NoResponse
    /\ raw_df = << >>
    /\ df = << >>
    /\ threads = NotRun
    /\ tuning = NotRun
    /\ deployment \in
          { [ pc |-> "check_requirements", installed |-> installed,
              exported_model |-> exists, requirements |-> "not run",
              training |-> "not run", trained |-> "not run",
              server_process |-> "None", test_api |-> "not run",
              terminate_calls |-> 0 ] :
                installed \in SUBSET RequiredPackages, exists \in BOOLEAN }

DeployOnly ==
    /\ UNCHANGED <<model, model_info, train_df, request, response, raw_df, df>>
    /\ UNCHANGED <<threads, tuning>>

\* lines 154-157
CheckRequirements ==
    /\ deployment.pc = "check_requirements"
    /\ LET ok == check_requirements(deployment.installed)
       IN  deployment' = [deployment EXCEPT
               !.requirements = IF ok THEN "True" ELSE "False",
               !.pc = IF ok THEN "train_model" ELSE "done"]
    /\ DeployOnly

\* lines 160-162, with train_model and its run_command
TrainModel ==
    /\ deployment.pc = "train_model"
    /\ \E run \in TrainingRuns :
          LET result == run_command(run)
              exists == DirectoryAfter(run, deployment.exported_model)
              ok == train_model(result, exists)
          IN  deployment' = [deployment EXCEPT
                  !.training = result,
                  !.exported_model = exists,
                  !.trained = IF ok THEN "True" ELSE "False",
                  !.pc = IF ok THEN "start_api_server" ELSE "done"]
    /\ DeployOnly

\* lines 165-168: Popen returns a process object, which is true, whether
\* uvicorn keeps running or exits at once
StartApiServer ==
    /\ deployment.pc = "start_api_server"
    /\ \E process \in {"running", "exited"} :
          deployment' = [deployment EXCEPT !.server_process = process,
                                           !.pc = "test_api"]
    /\ DeployOnly

\* line 172: the call of test_api
TestApi ==
    /\ deployment.pc = "test_api"
    /\ \E health_status \in HealthAnswers, answer \in PredictAnswers :
          deployment' = [deployment EXCEPT
                            !.test_api = test_api(health_status, answer),
                                           !.pc = "tested"]
    /\ DeployOnly

\* Ctrl+C while test_api runs: KeyboardInterrupt is no Exception, so the
\* clause of line 191 does not catch it and main ends with the traceback
InterruptTest ==
    /\ deployment.pc = "test_api"
    /\ deployment' = [deployment EXCEPT !.pc = "interrupted"]
    /\ DeployOnly

\* lines 173-180: the test passed, main waits for the server
KeepServing ==
    /\ deployment.pc = "tested"
    /\ deployment.test_api = "True"
    /\ deployment' = [deployment EXCEPT !.pc = "wait"]
    /\ DeployOnly

\* lines 188-190: the test returned False or None
TerminateAfterFailedTest ==
    /\ deployment.pc = "tested"
    /\ deployment.test_api # "True"
    /\ deployment' = [deployment EXCEPT
           !.server_process = "exited",
           !.terminate_calls = @ + 1,
           !.pc = "done"]
    /\ DeployOnly

\* line 183: server_process.wait() returns because the server ended
ServerExits ==
    /\ deployment.pc = "wait"
    /\ deployment' = [deployment EXCEPT !.server_process = "exited",
                                        !.pc = "done"]
    /\ DeployOnly

\* lines 184-187: Ctrl+C while waiting
Shutdown ==
    /\ deployment.pc = "wait"
    /\ deployment' = [deployment EXCEPT
           !.server_process = "exited",
           !.terminate_calls = @ + 1,
           !.pc = "done"]
    /\ DeployOnly

NextDeploy ==
    \/ CheckRequirements
    \/ TrainModel
    \/ StartApiServer
    \/ TestApi
    \/ InterruptTest
    \/ KeepServing
    \/ TerminateAfterFailedTest
    \/ ServerExits
    \/ Shutdown

SpecDeploy == InitDeploy /\ [][NextDeploy]_vars

----------------------------------------------------------------------------
(* advanced_train.py: the loop of main that trains and tunes each model     *)
(* type, tracks the best one by its test ROC-AUC and exports it.  ROC-AUC   *)
(* is in thousandths.                                                       *)

\* the keys of get_model_configs, in the order of the dict
ModelTypes == <<"logistic", "random_forest", "gradient_boost", "svm">>

\* --model-type: one of the keys, or "all"
ModelTypeChoices == {"logistic", "random_forest", "gradient_boost", "svm", "all"}

\* lines 296-299
models_to_train(model_type) ==
    IF model_type = "all" THEN ModelTypes ELSE <<model_type>>

\* roc_auc_score of a tuned model on the test set: 0.0 when it ranks every
\* defaulter below every non-defaulter, 0.5 for a constant score, up to 1.0
RocAucValues == {0, 500, 946, 1000}

InitTrain ==
    /\ model = Absent
    /\ model_info = Absent
    /\ train_df = << >>
    /\ request = NoRequest
    /\ response = NoResponse
    /\ raw_df = << >>
    /\ df = << >>
    /\ threads = NotRun
    /\ deployment = NotRun
    /\ \E model_type \in ModelTypeChoices :
          tuning = [ pc |-> "loop", models_to_train |-> models_to_train(model_type),
                     results |-> << >>, best_score |-> 0,
                     best_model_name |-> "None", exported |-> "None" ]

TrainOnly ==
    /\ UNCHANGED <<model, model_info, train_df, request, response, raw_df, df>>
    /\ UNCHANGED <<threads, deployment>>

\* lines 308-345: one iteration of the loop for the next model type
TrainNext ==
    /\ tuning.pc = "loop"
    /\ Len(tuning.results) < Len(tuning.models_to_train)
    /\ \E roc_auc \in RocAucValues :
          LET model_name == tuning.models_to_train[Len(tuning.results) + 1]
              better == roc_auc > tuning.best_score
          IN  tuning' = [tuning EXCEPT
                  !.results = Append(@, [model_name |-> model_name,
                                         roc_auc |-> roc_auc]),
                  !.best_score = IF better THEN roc_auc ELSE @,
                  !.best_model_name = IF better THEN model_name ELSE @]
    /\ TrainOnly

\* lines 347-361 after the last iteration, no model was ever better than 0:
\* best_model_name.upper() raises AttributeError on None
SummaryRaises ==
    /\ tuning.pc = "loop"
    /\ Len(tuning.results) = Len(tuning.models_to_train)
    /\ tuning.best_model_name = "None"
    /\ tuning' = [tuning EXCEPT !.pc = "AttributeError"]
    /\ TrainOnly

\* lines 347-388 after the last iteration: the summary, then the best model
\* is saved to exported_model_tuned and tuning_results.json is written
ExportBest ==
    /\ tuning.pc = "loop"
    /\ Len(tuning.results) = Len(tuning.models_to_train)
    /\ tuning.best_model_name # "None"
    /\ tuning' = [tuning EXCEPT !.pc = "done",
                                !.exported = tuning.best_model_name]
    /\ TrainOnly

NextTrain ==
    \/ TrainNext
    \/ SummaryRaises
    \/ ExportBest

SpecTrain == InitTrain /\ [][NextTrain]_vars

----------------------------------------------------------------------------
(* Properties of batch_predict *)

\* the service has just answered a batch request
BatchRequest == request.endpoint = "/batch-predict"
\* ... and answered it with a result list and a summary
BatchAccepted == BatchRequest /\ response.status_code = 200
\* what predict does with the application at position i of the batch
Scored(i) == predict(model, model_info, request.body[i])
\* the rejection of a batch for its size
TooLarge(resp) ==
    /\ resp.status_code = 400
    /\ resp.detail = <<"Maximum 100 applications per batch">>

\* C1: with the classifier loaded and at most 100 applications, a failure
\* while scoring element i is recorded as an error outcome of element i and
\* does not stop the scoring of the elements after it: every element of the
\* input has an outcome, whichever elements fail.
C1_BatchIsolation ==
    (BatchRequest /\ model.state = "loaded"
                  /\ Len(request.body) <= MaxBatchSize) =>
        /\ response.status_code = 200
        /\ \A i \in 1..Len(request.body) :
              \E j \in DOMAIN response.body.results :
                  /\ response.body.results[j].application_id = i
                  /\ response.body.results[j].status \in {"success", "error"}
                  /\ (response.body.results[j].status = "error")
                        <=> (Scored(i).status_code # 200)

\* a batch whose first element fails, whose second is scored and whose third
\* fails again
C1_Witness ==
    /\ BatchAccepted
    /\ Len(request.body) = 3
    /\ response.body.results[1].status = "error"
    /\ response.body.results[2].status = "success"
    /\ response.body.results[3].status = "error"

\* C2: the result list has exactly one outcome per input element, in input
\* order: the outcome at position i is the outcome of scoring the input at
\* position i, for every mix of successes and failures.
C2_BatchOrder ==
    BatchAccepted =>
        /\ Len(response.body.results) = Len(request.body)
        /\ \A i \in 1..Len(request.body) :
              LET entry == response.body.results[i]
              IN  /\ entry.application_id = i
                  /\ IF Scored(i).status_code = 200
                     THEN entry.status = "success" /\ entry.result = Scored(i).body
                     ELSE entry.status = "error" /\ entry.error = Scored(i)

\* three different applications: the first and the last are scored, with
\* different decisions, and the one between them fails
C2_Witness ==
    /\ BatchAccepted
    /\ Len(request.body) = 3
    /\ request.body[1] # request.body[3]
    /\ response.body.results[1].status = "success"
    /\ response.body.results[2].status = "error"
    /\ response.body.results[3].status = "success"
    /\ response.body.results[1].result.recommendation.decision
          # response.body.results[3].result.recommendation.decision

\* C3 as stated: a batch is rejected as too large exactly when it holds more
\* than 100 applications, and a rejected batch produces no outcome.
C3_TooLargeExactlyAboveLimit ==
    BatchRequest =>
        /\ TooLarge(response) <=> (Len(request.body) > MaxBatchSize)
        /\ Len(request.body) > MaxBatchSize => response.status_code # 200

\* C3 as amended: with the model loaded, a batch is rejected as too large
\* exactly when it holds more than 100 applications (100 is accepted), and
\* the rejection carries no decision, outcome or summary; with the model not
\* loaded every batch, of any size, is rejected with "Model not loaded on
\* server" instead, again without any outcome.
C3_TooLargeWhenLoaded ==
    BatchRequest =>
        /\ model.state = "loaded" =>
              /\ TooLarge(response) <=> (Len(request.body) > MaxBatchSize)
              /\ Len(request.body) <= MaxBatchSize => response.status_code = 200
              /\ Len(request.body) > MaxBatchSize =>
                    DOMAIN response = {"status_code", "detail"}
        /\ model.state = "None" =>
              response = HTTPException(500, <<"Model not loaded on server">>)

\* a batch of 101 applications rejected for its size by a loaded service
C3_Witness ==
    /\ BatchRequest
    /\ model.state = "loaded"
    /\ Len(request.body) = MaxBatchSize + 1
    /\ TooLarge(response)

\* C4: in every batch result, summary.total is the length of the input,
\* summary.success the number of scored elements and summary.errors the
\* number of failed elements, so success + errors = total.
C4_SummaryCounts ==
    BatchAccepted =>
        LET summary == response.body.summary
            results == response.body.results
        IN  /\ summary.total_applications = Len(request.body)
            /\ summary.successful_predictions =
                  Cardinality({ i \in DOMAIN results : results[i].status = "success" })
            /\ summary.successful_predictions =
                  Cardinality({ i \in 1..Len(request.body) : Scored(i).status_code = 200 })
            /\ summary.errors =
                  Cardinality({ i \in DOMAIN results : results[i].status = "error" })
            /\ summary.successful_predictions + summary.errors
                  = summary.total_applications

\* a batch of three with two scored elements and one failure
C4_Witness ==
    /\ BatchAccepted
    /\ response.body.summary.total_applications = 3
    /\ response.body.summary.successful_predictions = 2
    /\ response.body.summary.errors = 1

\* C5: summary.high_risk_count is the number of scored elements whose risk
\* level is High or Very High; failed elements and lower tiers are not
\* counted, so high_risk_count <= summary.success.
C5_HighRiskCount ==
    BatchAccepted =>
        LET summary == response.body.summary
            results == response.body.results
        IN  /\ summary.high_risk_count =
                  Cardinality({ i \in DOMAIN results :
                      /\ results[i].status = "success"
                      /\ results[i].result.risk_assessment.risk_level
                            \in {"High", "Very High"} })
            /\ summary.high_risk_count <= summary.successful_predictions

\* a failure, a Medium decision and a Very High decision in one batch: one
\* high-risk element among two scored ones
C5_Witness ==
    /\ BatchAccepted
    /\ Len(request.body) = 3
    /\ \E i, j, k \in 1..3 :
          /\ response.body.results[i].status = "error"
          /\ response.body.results[j].status = "success"
          /\ response.body.results[j].result.risk_assessment.risk_level = "Medium"
          /\ response.body.results[k].status = "success"
          /\ response.body.results[k].result.risk_assessment.risk_level = "Very High"
    /\ response.body.summary.high_risk_count = 1
    /\ response.body.summary.successful_predictions = 2

----------------------------------------------------------------------------
(* Properties of predict: the risk policy *)

\* the service has just answered a predict request with a decision
PredictAnswered == request.endpoint = "/predict" /\ response.status_code = 200
\* what the loaded pipeline returned for the application of that request:
\* the unrounded probability and the label
PipelineOutcome == model.pipeline[ServedRow(request.body)]

\* C6: the risk tier is a total function of the probability in [0,1] with
\* closed lower bounds: >= 0.8 Very High, [0.6, 0.8) High, [0.4, 0.6) Medium,
\* [0.2, 0.4) Low, below 0.2 Very Low; 0.8 is Very High, 0.7999 High, 0.4
\* Medium, 0.2 Low and 0.0 Very Low, whatever the label is.
C6_RiskTier ==
    PredictAnswered =>
        LET p == PipelineOutcome.proba
            tier == response.body.risk_assessment.risk_level
        IN  /\ tier \in {"Very High", "High", "Medium", "Low", "Very Low"}
            /\ tier = "Very High" <=> p >= 80000
            /\ tier = "High" <=> (60000 <= p /\ p < 80000)
            /\ tier = "Medium" <=> (40000 <= p /\ p < 60000)
            /\ tier = "Low" <=> (20000 <= p /\ p < 40000)
            /\ tier = "Very Low" <=> p < 20000
            /\ p = 80000 => tier = "Very High"
            /\ p = 79990 => tier = "High"
            /\ p = 40000 => tier = "Medium"
            /\ p = 20000 => tier = "Low"
            /\ p = 0 => tier = "Very Low"

\* probability exactly 0.8 with label 0: tier Very High
C6_Witness ==
    /\ PredictAnswered
    /\ PipelineOutcome.proba = 80000
    /\ PipelineOutcome.label = 0
    /\ response.body.risk_assessment.risk_level = "Very High"

\* C7: whenever the label is 1 the recommendation is Reject, for every
\* probability and tier; the confidence is High if the probability is above
\* 0.7 and Medium otherwise (0.7 itself and 0.15 give Medium).
C7_RejectOnLabelOne ==
    (PredictAnswered /\ PipelineOutcome.label = 1) =>
        /\ response.body.recommendation.decision = "Reject"
        /\ response.body.risk_assessment.confidence =
              IF PipelineOutcome.proba > 70000 THEN "High" ELSE "Medium"

\* label 1 with probability exactly 0.7: Reject with confidence Medium
C7_Witness ==
    /\ PredictAnswered
    /\ PipelineOutcome.label = 1
    /\ PipelineOutcome.proba = 70000
    /\ response.body.recommendation.decision = "Reject"
    /\ response.body.risk_assessment.confidence = "Medium"

\* C8: whenever the label is 0, a probability below 0.1 gives Approve with
\* confidence High, one in [0.1, 0.3) Approve with monitoring with confidence
\* Medium, one of 0.3 or more Further review with confidence Low; a label-0
\* record is never rejected.
C8_LabelZeroPolicy ==
    (PredictAnswered /\ PipelineOutcome.label = 0) =>
        LET p == PipelineOutcome.proba
            decision == response.body.recommendation.decision
            conf == response.body.risk_assessment.confidence
        IN  /\ p < 10000 => (decision = "Approve" /\ conf = "High")
            /\ (10000 <= p /\ p < 30000) =>
                  (decision = "Approve with monitoring" /\ conf = "Medium")
            /\ p >= 30000 =>
                  (decision = "Further review required" /\ conf = "Low")
            /\ decision # "Reject"

\* label 0 with probability exactly 0.1: Approve with monitoring, Medium
C8_Witness ==
    /\ PredictAnswered
    /\ PipelineOutcome.label = 0
    /\ PipelineOutcome.proba = 10000
    /\ response.body.recommendation.decision = "Approve with monitoring"
    /\ response.body.risk_assessment.confidence = "Medium"

----------------------------------------------------------------------------
(* Properties of add_feature_engineering *)

FiveFlags(r) ==
    << r.employment_risk, r.high_interest, r.young_borrower,
       r.multiple_delinquencies, r.many_open_accounts >>

\* C9: in every engineered record risk_score is the number of true flags
\* among employment_risk, high_interest, young_borrower,
\* multiple_delinquencies and many_open_accounts, so it lies in 0..5; records
\* that differ in experienced_worker or high_credit_score but not in these
\* five flags have the same risk_score.
C9_RiskScore ==
    \A i \in DOMAIN df :
        /\ df[i].risk_score =
              Cardinality({ k \in 1..5 : FiveFlags(df[i])[k] = 1 })
        /\ df[i].risk_score \in 0..5
        /\ \A j \in DOMAIN df :
              FiveFlags(df[i]) = FiveFlags(df[j])
                  => df[i].risk_score = df[j].risk_score

\* an experienced worker (informational flag set) with two risk flags set,
\* next to a record without the informational flag
C9_Witness ==
    \E i, j \in DOMAIN df :
        /\ df[i].experienced_worker = 1
        /\ df[i].high_interest = 1
        /\ df[i].many_open_accounts = 1
        /\ df[i].risk_score = 2
        /\ df[j].experienced_worker = 0

\* C10: at serving time high_interest is interest_rate > the median interest
\* rate of the training data and many_open_accounts is num_open_acc > the
\* median open-account count of the training data; neither median is taken
\* from the request being scored.
C10_TrainingMedians ==
    PredictAnswered =>
        LET flags == response.body.feature_analysis.risk_factors
        IN  /\ flags.high_interest =
                  (2 * request.body.interest_rate
                      > Median2(Column(train_df, "interest_rate")))
            /\ flags.many_open_accounts =
                  (2 * request.body.num_open_acc
                      > Median2(Column(train_df, "num_open_acc")))

----------------------------------------------------------------------------
(* Properties of feature engineering, training against serving *)

\* C11: for any application record, the engineered features computed for it
\* as a row of the training data set equal the engineered features computed
\* for it when predict scores it alone (a one-row frame).
C11_TrainServeReproducible ==
    \A i \in DOMAIN df : df[i] = ServedRow(raw_df[i])

\* C12: if loan_amount or term_months of an application is zero, feature
\* engineering fails and yields no engineered record; no engineered record
\* has a non-finite income_to_loan_ratio, monthly_payment or
\* payment_to_income_ratio.
C12_ZeroDivisorFails ==
    \A i \in DOMAIN df :
        /\ raw_df[i].loan_amount # 0
        /\ raw_df[i].term_months # 0
        /\ IsFinite(df[i].income_to_loan_ratio)
        /\ IsFinite(df[i].monthly_payment)
        /\ IsFinite(df[i].payment_to_income_ratio)

----------------------------------------------------------------------------
(* Properties of batch_predict: the failing element *)

\* the batch has four applications, the third (position 2 counted from 0)
\* with loan_amount = 0, the others with positive loan_amount and
\* term_months and accepted by the classifier
IsolationCase ==
    /\ BatchRequest
    /\ model.state = "loaded"
    /\ Len(request.body) = 4
    /\ request.body[3].loan_amount = 0
    /\ \A i \in {1, 2, 4} :
          /\ request.body[i].loan_amount > 0
          /\ request.body[i].term_months > 0
          /\ ~model.pipeline[ServedRow(request.body[i])].raises

\* C13: in a 4-item batch whose element at position 2 (counted from 0) has
\* loan_amount = 0 and whose other elements are valid, the result has 4
\* outcomes, 3 Decisions and 1 error tagged with the index of the failing
\* element (application_id counts from 1, so index 2 is application_id 3),
\* and summary.total = 4, summary.errors = 1.
C13_IndexedFailure ==
    IsolationCase =>
        /\ response.status_code = 200
        /\ Len(response.body.results) = 4
        /\ { i \in 1..4 : response.body.results[i].status = "success" } = {1, 2, 4}
        /\ { response.body.results[i].application_id - 1 :
                i \in { j \in 1..4 : response.body.results[j].status = "error" } } = {2}
        /\ response.body.summary.total_applications = 4
        /\ response.body.summary.errors = 1

----------------------------------------------------------------------------
(* Properties of the credit score bands *)

\* C14: for a credit_score in [0, 850] the band is Poor for 0 <= score <= 580,
\* Fair for 580 < score <= 670, Good for 670 < score <= 740 and Excellent for
\* 740 < score <= 850; the edges 0 and 580 are Poor, 670 is Fair, 740 is Good
\* and 850 is Excellent, and every in-range score gets exactly one band.
C14_CreditScoreBands ==
    \A i \in DOMAIN df :
        LET score == raw_df[i].credit_score
            band == df[i].credit_score_binned
        IN  (0 <= score /\ score <= 850) =>
              /\ band \in {"Poor", "Fair", "Good", "Excellent"}
              /\ band = "Poor" <=> score <= 580
              /\ band = "Fair" <=> (580 < score /\ score <= 670)
              /\ band = "Good" <=> (670 < score /\ score <= 740)
              /\ band = "Excellent" <=> 740 < score
              /\ score \in {0, 580} => band = "Poor"
              /\ score = 670 => band = "Fair"
              /\ score = 740 => band = "Good"
              /\ score = 850 => band = "Excellent"

\* a frame with a score on an inner edge and the score right above it: 580
\* is Poor, 581 is Fair
C14_Witness ==
    \E i, j \in DOMAIN df :
        /\ raw_df[i].credit_score = 580
        /\ df[i].credit_score_binned = "Poor"
        /\ raw_df[j].credit_score = 581
        /\ df[j].credit_score_binned = "Fair"

\* C15: a credit_score outside the nominal range still gets a band: every
\* score below 0 is Poor and every score above 850 is Excellent, so the band
\* is never missing for any numeric credit_score.
C15_OutOfRangeBands ==
    \A i \in DOMAIN df :
        /\ df[i].credit_score_binned \in {"Poor", "Fair", "Good", "Excellent"}
        /\ raw_df[i].credit_score < 0 => df[i].credit_score_binned = "Poor"
        /\ raw_df[i].credit_score > 850 => df[i].credit_score_binned = "Excellent"

----------------------------------------------------------------------------
(* Properties of the risk policy on any probability *)

----------------------------------------------------------------------------
(* Properties of predict: rounding and failures *)

\* C17: the reported default_probability is the classifier probability
\* rounded to 4 decimal places, while tier, confidence and recommendation
\* come from the unrounded probability: 0.79996 is reported as 0.8 and is
\* tier High, not Very High; likewise 0.09999 with label 0 is reported as
\* 0.1 and approved, and 0.70001 with label 1 is reported as 0.7 and
\* rejected with confidence High.
C17_RoundedReport ==
    PredictAnswered =>
        LET p == PipelineOutcome.proba
            l == PipelineOutcome.label
            reported == response.body.prediction.default_probability
            tier == response.body.risk_assessment.risk_level
            conf == response.body.risk_assessment.confidence
            decision == response.body.recommendation.decision
        IN  /\ 10 * reported - p \in -4..5
            /\ p = 79996 => (reported = 8000 /\ tier = "High")
            /\ (p = 59999 => tier = "Medium") /\ (p = 39999 => tier = "Low")
            /\ (p = 19999 => tier = "Very Low")
            /\ (p = 9999 /\ l = 0) =>
                  (reported = 1000 /\ decision = "Approve" /\ conf = "High")
            /\ (p = 29999 /\ l = 0) =>
                  (reported = 3000 /\ decision = "Approve with monitoring")
            /\ (p = 70001 /\ l = 1) => (reported = 7000 /\ conf = "High")

\* the classifier gives 0.79996: reported as 0.8000, tier High
C17_Witness ==
    /\ PredictAnswered
    /\ PipelineOutcome.proba = 79996
    /\ response.body.prediction.default_probability = 8000
    /\ response.body.risk_assessment.risk_level = "High"

\* the service has just answered a predict request with the model loaded
PredictHandled == request.endpoint = "/predict" /\ model.state = "loaded"
\* the exception raised inside the try block for that request, or none
Raised == RaisedInTry(model, model_info, request.body)
\* the error the caller of predict gets: every non-200 answer of the model
\* is a raised HTTPException, its words are the detail
ErrorSeen(resp) == [kind |-> "HTTPException", message |-> resp.detail]
\* a Decision with every part: probability, label, tier, confidence,
\* recommendation and reasoning
CompleteDecision(resp) ==
    /\ resp.status_code = 200
    /\ DOMAIN resp = {"status_code", "body"}
    /\ DOMAIN resp.body = {"prediction", "risk_assessment", "recommendation",
                           "feature_analysis", "model_info"}
    /\ DOMAIN resp.body.prediction =
          {"default_probability", "default_probability_percent",
           "binary_prediction", "prediction_label"}
    /\ DOMAIN resp.body.risk_assessment = {"risk_level", "risk_color", "confidence"}
    /\ DOMAIN resp.body.recommendation = {"decision", "reasoning"}
\* a failure and nothing else
BareFailure(resp) ==
    /\ resp.status_code # 200
    /\ DOMAIN resp = {"status_code", "detail"}

\* C18 as stated: predict returns either a complete Decision or a failure,
\* never a partial result, and a failure raised by feature engineering or by
\* the classifier call reaches the caller unchanged, with the same error
\* kind and content.
C18_FailureUnchanged ==
    PredictHandled =>
        /\ CompleteDecision(response) \/ BareFailure(response)
        /\ Raised # NoError => ErrorSeen(response) = Raised

\* C18 as amended: predict returns either a complete Decision or a failure,
\* never a partial result; an exception raised inside predict reaches the
\* caller as an HTTP 400 error whose detail is "Prediction error: " followed
\* by the words of the original exception, whose kind is not kept.
C18_FailureWrapped ==
    PredictHandled =>
        /\ CompleteDecision(response) \/ BareFailure(response)
        /\ Raised = NoError <=> CompleteDecision(response)
        /\ Raised # NoError =>
              /\ response.status_code = 400
              /\ ErrorSeen(response) =
                    [ kind |-> "HTTPException",
                      message |-> <<"Prediction error">> \o Raised.message ]

\* the classifier rejects the engineered row of the zero-loan application:
\* the caller sees HTTP 400 "Prediction error: ..."
C18_Witness ==
    /\ PredictHandled
    /\ request.body = ZeroLoanApplication
    /\ PipelineOutcome.raises
    /\ response.status_code = 400
    /\ response.detail = <<"Prediction error", "pipeline raised">>

\* C19: when the classifier is not loaded, predict fails with the
\* model-not-loaded error, and batch_predict on a batch of at most 100
\* applications fails once for the whole batch with that error: no per-item
\* outcome and no summary, and never a per-item error outcome.
C19_ModelNotLoaded ==
    (/\ model.state = "None"
     /\ request.endpoint \in {"/predict", "/batch-predict"}
     /\ request.endpoint = "/batch-predict" => Len(request.body) <= MaxBatchSize)
        =>
        /\ response.status_code = 500
        /\ response.detail = <<"Model not loaded on server">>
        /\ DOMAIN response = {"status_code", "detail"}

\* a batch of three sent to a service whose model load failed
C19_Witness ==
    /\ model.state = "None"
    /\ BatchRequest
    /\ Len(request.body) = 3
    /\ response = HTTPException(500, <<"Model not loaded on server">>)

----------------------------------------------------------------------------
(* Properties of add_feature_engineering: the reference statistics *)

\* the reference statistics of a run: the medians of the frame it is given
ReferenceStats(frame) ==
    << Median2(Column(frame, "interest_rate")),
       Median2(Column(frame, "num_open_acc")) >>

\* C20: for every application with loan_amount > 0 and term_months > 0,
\* feature engineering succeeds (both quotients by these are finite), and any
\* two runs on that application with the same reference statistics give
\* identical engineered features, whatever frame and position it is in: the
\* second run takes it alone, before or after any other row.
C20_Deterministic ==
    LET stats == ReferenceStats(raw_df)
    IN  \A i \in DOMAIN df :
            (raw_df[i].loan_amount > 0 /\ raw_df[i].term_months > 0) =>
                /\ IsFinite(df[i].income_to_loan_ratio)
                /\ IsFinite(df[i].monthly_payment)
                /\ ReferenceStats(<<raw_df[i]>>) = stats
                      => EngineerRow(<<raw_df[i]>>, 1) = df[i]
                /\ \A x \in FrameRows :
                      ReferenceStats(<<raw_df[i], x>>) = stats =>
                          /\ EngineerRow(<<raw_df[i], x>>, 1) = df[i]
                          /\ EngineerRow(<<x, raw_df[i]>>, 2) = df[i]

\* an application flagged high_interest in a two-row frame, and the same two
\* rows in the other order: another frame with the same reference statistics
C20_Witness ==
    /\ Len(df) = 2
    /\ raw_df[1].loan_amount > 0 /\ raw_df[1].term_months > 0
    /\ raw_df[1].interest_rate > raw_df[2].interest_rate
    /\ df[1].high_interest = 1
    /\ ReferenceStats(<<raw_df[2], raw_df[1]>>) = ReferenceStats(raw_df)
    /\ EngineerRow(<<raw_df[2], raw_df[1]>>, 2) = df[1]

----------------------------------------------------------------------------
(* Properties of predict: the served record and the Decision *)

\* C21: for the application age 35, annual_income 90000, employment_length
\* 10, loan_amount 20000, term_months 36, interest_rate 7.5, credit_score
\* 800, delinquency_2yrs 0, num_open_acc 3, the five risk flags are all
\* false, risk_score is 0 and the credit score band is Excellent; when the
\* classifier returns probability 0.05 and label 0 the Decision is tier
\* Very Low, recommendation Approve, confidence High.
C21_EndToEndExample ==
    (PredictAnswered /\ request.body = ExcellentBorrower) =>
        LET features == response.body.feature_analysis
        IN  /\ features.risk_factors =
                  [ employment_risk |-> FALSE, high_interest |-> FALSE,
                    young_borrower |-> FALSE, multiple_delinquencies |-> FALSE,
                    many_open_accounts |-> FALSE ]
            /\ features.risk_score = 0
            /\ features.credit_score_category = "Excellent"
            /\ PipelineOutcome = Returns(5000, 0) =>
                  /\ response.body.risk_assessment.risk_level = "Very Low"
                  /\ response.body.recommendation.decision = "Approve"
                  /\ response.body.risk_assessment.confidence = "High"
                  /\ response.body.prediction.default_probability = 500

\* the Excellent Borrower scored by a classifier that returns 0.05 and 0
C21_Witness ==
    /\ PredictAnswered
    /\ request.body = ExcellentBorrower
    /\ PipelineOutcome = Returns(5000, 0)
    /\ response.body.feature_analysis.risk_score = 0
    /\ response.body.recommendation.decision = "Approve"

\* C26: in the single-record serving path high_interest and
\* many_open_accounts are false for every application, each value being
\* compared with the median of its own one-row column; hence every served
\* record has risk_score in 0..3, in a predict answer and in every scored
\* entry of a batch.
C26_ServedFlagsFalse ==
    /\ PredictAnswered =>
          LET features == response.body.feature_analysis
          IN  /\ ~features.risk_factors.high_interest
              /\ ~features.risk_factors.many_open_accounts
              /\ features.risk_score \in 0..3
              /\ features.risk_score =
                    Cardinality({ f \in {"employment_risk", "young_borrower",
                                         "multiple_delinquencies"} :
                                    features.risk_factors[f] })
    /\ BatchAccepted =>
          \A i \in DOMAIN response.body.results :
              LET entry == response.body.results[i]
              IN  entry.status = "success" =>
                    /\ ~entry.result.feature_analysis.risk_factors.high_interest
                    /\ ~entry.result.feature_analysis.risk_factors.many_open_accounts
                    /\ entry.result.feature_analysis.risk_score \in 0..3

\* the High Risk Borrower (interest rate 19.5, 15 open accounts) served with
\* both flags false and risk_score 3
C26_Witness ==
    /\ PredictAnswered
    /\ request.body = HighRiskBorrower
    /\ ~response.body.feature_analysis.risk_factors.high_interest
    /\ ~response.body.feature_analysis.risk_factors.many_open_accounts
    /\ response.body.feature_analysis.risk_score = 3

\* C27: whether predict succeeds for a valid application depends only on the
\* model being loaded and on scoring, not on model_info: when the model is
\* loaded and the classifier scores the application, predict returns a
\* Decision, also when model_info is the fallback with best_score 'unknown'.
C27_SucceedsWithFallbackInfo ==
    (/\ request.endpoint = "/predict"
     /\ model.state = "loaded"
     /\ ~PipelineOutcome.raises)
        => response.status_code = 200

\* C28: in every Decision, recommendation Approve occurs only with risk tier
\* Very Low, and Approve with monitoring only with tier Very Low or Low; no
\* Decision combines an approving recommendation with tier Medium, High or
\* Very High.
C28_ApprovalTiers ==
    PredictAnswered =>
        LET tier == response.body.risk_assessment.risk_level
            decision == response.body.recommendation.decision
        IN  /\ decision = "Approve" => tier = "Very Low"
            /\ decision = "Approve with monitoring" => tier \in {"Very Low", "Low"}
            /\ decision \in {"Approve", "Approve with monitoring"} =>
                  tier \notin {"Medium", "High", "Very High"}

\* label 0 with probability 0.29999: Approve with monitoring in tier Low
C28_Witness ==
    /\ PredictAnswered
    /\ PipelineOutcome = Returns(29999, 0)
    /\ response.body.recommendation.decision = "Approve with monitoring"
    /\ response.body.risk_assessment.risk_level = "Low"

----------------------------------------------------------------------------
(* Properties of batch_predict: independence, the order of its checks *)

\* the entry a batch records for the application at position k, without its
\* position
Outcome(entry) ==
    IF entry.status = "success"
    THEN [status |-> "success", content |-> Returned(entry.result)]
    ELSE [status |-> "error", content |-> entry.error]

\* C23: the outcome batch_predict records for an application does not
\* depend on the other applications of the batch: for the same classifier,
\* the engineered features and the Decision of the element at position i are
\* those predict returns for that application alone, and those recorded for
\* it in a batch where it stands after any other application.
C23_BatchIndependence ==
    BatchAccepted =>
        \A i \in 1..Len(request.body) :
            LET application == request.body[i]
                entry == response.body.results[i]
                alone == predict(model, model_info, application)
            IN  /\ Outcome(entry).content = alone
                /\ entry.status = "success" =>
                      entry.result.feature_analysis = alone.body.feature_analysis
                /\ \A x \in Applications :
                      Outcome(batch_predict(model, model_info, <<x, application>>)
                                  .body.results[2]) = Outcome(entry)

\* the High Risk Borrower scored next to the Excellent Borrower: its
\* risk_score is 3 as when served alone, where one frame for the whole batch
\* would give another value
C23_Witness ==
    /\ BatchAccepted
    /\ Len(request.body) = 2
    /\ request.body[1] = HighRiskBorrower
    /\ request.body[2] = ExcellentBorrower
    /\ response.body.results[1].status = "success"
    /\ response.body.results[2].status = "success"
    /\ response.body.results[1].result.feature_analysis.risk_score = 3
    /\ add_feature_engineering(request.body)[1].risk_score # 3

\* C24 as stated: a batch longer than 100 applications is rejected as too
\* large before any other processing, whether or not the classifier is
\* loaded.
C24_SizeCheckFirst ==
    (BatchRequest /\ Len(request.body) > MaxBatchSize) => TooLarge(response)

\* C24 as amended: a batch longer than 100 applications is rejected before
\* any element is scored, with no outcome and no summary; the rejection is
\* the too-large error when the classifier is loaded and the
\* model-not-loaded error when it is not, the model check coming first.
C24_ModelCheckFirst ==
    (BatchRequest /\ Len(request.body) > MaxBatchSize) =>
        /\ DOMAIN response = {"status_code", "detail"}
        /\ IF model.state = "None"
           THEN response = HTTPException(500, <<"Model not loaded on server">>)
           ELSE TooLarge(response)

\* a batch of 101 applications sent to a service whose model load failed
C24_Witness ==
    /\ BatchRequest
    /\ Len(request.body) = MaxBatchSize + 1
    /\ model.state = "None"
    /\ response.status_code = 500

----------------------------------------------------------------------------
(* Properties of the process-wide state *)

\* C25: no request handler changes the loaded model or model_info: after
\* startup every step leaves them as they are, so a service whose model load
\* failed answers every predict, batch-predict and model-info request with
\* the model-not-loaded error and never with a Decision.
C25_HandlersKeepModel ==
    [][ /\ model.state # "unbound" =>
              (model' = model /\ model_info' = model_info)
        /\ (/\ model.state = "None"
            /\ request'.endpoint \in {"/predict", "/batch-predict", "/model-info"})
              => /\ response'.status_code = 500
                 /\ response'.detail \in { <<"Model not loaded on server">>,
                                           <<"Model not loaded">> }
                 /\ DOMAIN response' = {"status_code", "detail"} ]_vars

\* a model-info request answered by a service whose model load failed
C25_Witness ==
    /\ model = NoneModel
    /\ request.endpoint = "/model-info"
    /\ response = HTTPException(500, <<"Model not loaded">>)

----------------------------------------------------------------------------
(* Properties of concurrent predict calls *)

\* C22: predict calls issued at the same time by several callers do not
\* interfere: under every interleaving of their statements, each call
\* returns what predict returns for its application when it runs alone, the
\* classifier being only read.
C22_CallsDoNotInterfere ==
    \A c \in Callers :
        threads.call[c].pc = "done" =>
            threads.call[c].result =
                predict(model, model_info, threads.call[c].application)

\* two calls for different applications that overlapped, both finished, one
\* with a Decision
C22_Witness ==
    \E c, d \in Callers :
        /\ threads.call[c].pc = "done" /\ threads.call[d].pc = "done"
        /\ threads.call[c].overlapped /\ threads.call[d].overlapped
        /\ threads.call[c].application # threads.call[d].application
        /\ threads.call[c].result.status_code = 200
        /\ threads.call[c].result # threads.call[d].result

----------------------------------------------------------------------------
(* Properties of deploy.py *)

\* C29: the steps of the deployment script run in order and stop at the
\* first failure: training has run only if the requirements check passed,
\* the server has been started only if training succeeded and exported_model
\* exists, the API test has run only if the server process was started, and
\* once main has handled a failed API test the server process is terminated.
C29_StepsInOrder ==
    /\ deployment.training # "not run" => deployment.requirements = "True"
    /\ deployment.server_process # "None" =>
           /\ deployment.training = "CompletedProcess"
           /\ deployment.trained = "True"
           /\ deployment.exported_model
    /\ deployment.pc \in {"test_api", "tested", "wait", "interrupted"}
           \/ deployment.test_api # "not run" =>
           deployment.server_process # "None"
    /\ deployment.pc = "done" /\ deployment.test_api \in {"False", "None"} =>
           /\ deployment.terminate_calls = 1
           /\ deployment.server_process = "exited"
    /\ deployment.pc = "done" /\ deployment.requirements = "False" =>
           deployment.training = "not run"
    /\ deployment.pc = "done" /\ deployment.trained = "False" =>
           /\ deployment.server_process = "None"
           /\ deployment.test_api = "not run"

\* the script went through every step and ended after a failed API test
C29_Witness ==
    /\ deployment.pc = "done"
    /\ deployment.requirements = "True"
    /\ deployment.trained = "True"
    /\ deployment.test_api = "None"
    /\ deployment.terminate_calls = 1

----------------------------------------------------------------------------
(* Properties of the training loop *)

\* the largest test ROC-AUC among the trained models
MaxRocAuc(results) ==
    CHOOSE r \in { results[i].roc_auc : i \in DOMAIN results } :
        \A i \in DOMAIN results : results[i].roc_auc <= r

\* the first model in training order that attains the largest ROC-AUC
FirstBest(results) ==
    LET i == CHOOSE j \in DOMAIN results :
                 /\ results[j].roc_auc = MaxRocAuc(results)
                 /\ \A k \in 1..(j - 1) : results[k].roc_auc < MaxRocAuc(results)
    IN  results[i].model_name

LoopFinished ==
    Len(tuning.results) = Len(tuning.models_to_train)

\* C30: after the training loop best_score is the largest test ROC-AUC among
\* the trained models and best_model_name is the first model in training
\* order that attains it, and once main has ended that model is exported.
C30_BestSelectedAndExported ==
    LoopFinished =>
        /\ tuning.best_score = MaxRocAuc(tuning.results)
        /\ tuning.best_model_name = FirstBest(tuning.results)
        /\ tuning.pc # "loop" => tuning.exported = FirstBest(tuning.results)

====
